---- MODULE Spec2Model ----
(***************************************************************************)
(* Model of the video server's in-memory metadata store (InMemoryDB,       *)
(* src/main.go) and of its webhook registry (WebhookManager,               *)
(* src/webhooks.go), and of the handlers of src/handlers.go that serve a   *)
(* stored file, whole or by byte range.                                    *)
(*                                                                         *)
(* The store keeps *Video pointers, so the model has a heap of Video       *)
(* cells: videos maps an identifier to a heap address, and the lookup      *)
(* operations hand a freshly allocated copy to the caller.  Of the Video   *)
(* struct the fields ID, Name and CreatedAt are modelled: they are the     *)
(* ones the store reads; Size, ContentType, UpdatedAt and URL are payload  *)
(* that is copied along with them.                                         *)
(***************************************************************************)
EXTENDS Integers, Sequences, FiniteSets, TLC

VARIABLES
    heap,       \* address -> Video cell (the allocated *Video objects)
    videos,     \* InMemoryDB.videos: identifier -> address
    nameIndex,  \* InMemoryDB.nameIndex: name -> identifier
    latestID,   \* InMemoryDB.latestID ("" when there is none)
    usedIDs,    \* identifiers handed out so far (uuid.New() never repeats)
    dbSaves,    \* number of spawned "go db.saveToDisk()" that have not run yet
    dbWritable, \* whether os.WriteFile(db.dbPath, ...) succeeds
    dbDisk,     \* content of database.json
    last,       \* the last mutation of the store and what it returned
    ret,        \* what the last lookup returned to its caller
    mutation,   \* the AddVideo or DeleteVideo that holds db.mutex, and how far it is
    savers,     \* the db.saveToDisk() calls that have started and not returned
    webhooks,   \* WebhookManager.webhooks: event -> slice of URLs
    arrays,     \* the backing arrays of the slices
    whSaves,    \* number of spawned "go wm.saveToDisk()" that have not run yet
    whWritable, \* whether os.WriteFile(wm.dbPath, ...) succeeds
    whDisk,     \* content of webhooks.json
    notify,     \* the NotifyWebhooks call in progress and its deliveries
    wlast,      \* the last AddWebhook or RemoveWebhook call
    upload,     \* uploadVideoHandler from its "go NotifyWebhooks" on
    files,      \* the storage directory: file name -> content
    rangeHeader, \* parseRangeHeader: the header, a sequence of characters
    fileSize,   \* parseRangeHeader: the length of the resource
    parsed,     \* parseRangeHeader: what it returned
    response,   \* what downloadVideoHandler wrote for the last request
    filename,   \* sanitizeFilename: the name, a sequence of characters
    sanitized,  \* sanitizeFilename: what it returned
    query,      \* getAllVideosHandler: the page and limit parameters, len(allVideos)
    window,     \* getAllVideosHandler: the slice expression it came to
    reqs,       \* the upload and DELETE requests in progress: where each handler is
    flow        \* the identifiers uuid.New() gave, those whose file was saved, and
                \* those whose uploaded event was handed to NotifyWebhooks

\* db.mutex: who holds it
lockVars == <<mutation, savers>>

dbVars == <<heap, videos, nameIndex, latestID, usedIDs, dbSaves, dbWritable, dbDisk, last, ret, lockVars>>

whVars == <<webhooks, arrays, whSaves, whWritable, whDisk, notify, wlast>>

rangeVars == <<rangeHeader, fileSize, parsed>>

nameVars == <<filename, sanitized>>

pageVars == <<query, window>>

\* the arguments and results of the functions that are followed on their own
pureVars == <<rangeVars, nameVars, pageVars>>

\* the requests that are followed a statement at a time
reqVars == <<reqs, flow>>

httpVars == <<upload, files, response, pureVars, reqVars>>

vars == <<dbVars, whVars, httpVars>>

----------------------------------------------------------------------------
(* Bounds *)

VideoIDs == {"id1", "id2", "id3"}
Names == {"a.mp4", "b.mp4"}
MaxTime == 3
Times == 1..MaxTime
MaxPending == 1

\* the addresses of the copies a lookup hands out (GetAllVideos: one per record)
CopyPtrs == <<"copy1", "copy2", "copy3">>

Events == {"video.uploaded", "video.deleted"}
URLs == {"http://u1", "http://u2"}

\* the longest value of a Range header after "bytes=", when every sequence
\* of characters is tried, and the characters tried: digits, the separators
\* of a range and of a list of ranges, a sign, a space, a letter
MaxBody == 4
BodyChars == {"0", "1", "-", ",", "+", " ", "x"}

\* the longest resource, in bytes
MaxTotal == 11
Totals == 0..MaxTotal

\* the longest uploaded file, in bytes
MaxFile == 3

\* the number of bits of an int
IntBits == 8

\* how far from 0 and from the cap the lengths of the parts of a file name go
MaxSlack == 2

\* the requests that are served at the same time
Requests == {"r1", "r2"}

\* the identifiers in the order uploads are given them
IDOrder == <<"id1", "id2">>

\* the addresses of the backing arrays
ArrayPtrs == 1..(2 * Cardinality(Events) + 1)

----------------------------------------------------------------------------
(* Go maps as functions with a finite domain *)

EmptyMap == << >>

Put(m, k, v) == [x \in (DOMAIN m) \cup {k} |-> IF x = k THEN v ELSE m[x]]

Del(m, k) == [x \in (DOMAIN m) \ {k} |-> m[x]]

Range(f) == {f[x] : x \in DOMAIN f}

\* every order in which a range loop may visit the keys of a map
Orders(S) == {o \in [1..Cardinality(S) -> S] : \A i, j \in 1..Cardinality(S) : o[i] = o[j] => i = j}

Video(id, name, t) == [ID |-> id, Name |-> name, CreatedAt |-> t]

NoVideo == Video("", "", 0)

\* the address of the Video the upload that generated id allocated
NewVideoPtr(id) == id

\* garbage collection: only the cells the store or a caller still refers to remain
Collect(h, vs, r) == [p \in (DOMAIN h) \cap (Range(vs) \cup Range(r.ptrs)) |-> h[p]]

NoRet == [op |-> "none", ok |-> FALSE, ptrs |-> << >>, written |-> FALSE]

NoLast == [op |-> "none", v |-> NoVideo, ok |-> FALSE, wasLatest |-> FALSE]

NoDisk == [Videos |-> << >>, NameIndex |-> EmptyMap, LatestID |-> ""]

\* the three structures of an empty store
NoState == [Videos |-> {}, NameIndex |-> EmptyMap, LatestID |-> ""]

\* db.mutex is free of writers; committed is what the last mutation that
\* returned left in the three structures
NoMutation == [pc |-> "idle", op |-> "none", v |-> NoVideo, committed |-> NoState]

----------------------------------------------------------------------------
(* InMemoryDB *)

\* GetVideoByID: the value handed to the caller (a copy of the stored cell)
LookupByID(id) ==
    IF id \notin DOMAIN videos
    THEN [ok |-> FALSE, v |-> NoVideo]
    ELSE [ok |-> TRUE, v |-> heap[videos[id]]]

\* GetVideoByName: name index first, then the primary map
LookupByName(name) ==
    IF name \notin DOMAIN nameIndex
    THEN [ok |-> FALSE, v |-> NoVideo]
    ELSE IF nameIndex[name] \notin DOMAIN videos
         THEN [ok |-> FALSE, v |-> NoVideo]
         ELSE [ok |-> TRUE, v |-> heap[videos[nameIndex[name]]]]

\* GetLatestVideo
LookupLatest ==
    IF latestID = ""
    THEN [ok |-> FALSE, v |-> NoVideo]
    ELSE IF latestID \notin DOMAIN videos
         THEN [ok |-> FALSE, v |-> NoVideo]
         ELSE [ok |-> TRUE, v |-> heap[videos[latestID]]]

\* a scan that keeps the older record
Before(t, u) == t < u

\* t.After(u) of time.Time
After(t, u) == t > u

\* a delete that forgets the latest pointer and never looks for another one
NoScan(order, vs, h, cur) == cur

\* the loop of DeleteVideo that re-derives latestID: order is the order in
\* which the range loop visits the remaining keys, cur the latestID so far
RECURSIVE ScanLatest(_, _, _, _)
ScanLatest(order, vs, h, cur) ==
    IF order = << >>
    THEN cur
    ELSE LET vidID == Head(order)
             nxt == IF cur = "" \/ After(h[vs[vidID]].CreatedAt, h[vs[cur]].CreatedAt)
                    THEN vidID
                    ELSE cur
         IN  ScanLatest(Tail(order), vs, h, nxt)

\* an insert that keeps the first identifier a name was given
KeepFirstInIndex(ni, v) == IF v.Name \in DOMAIN ni THEN ni ELSE Put(ni, v.Name, v.ID)

\* AddVideo: db.nameIndex[v.Name] = v.ID
AddToIndex(ni, v) == Put(ni, v.Name, v.ID)

\* a delete that leaves the name index alone
KeepInIndex(ni, video) == ni

\* a delete that removes the name only when it still points to the deleted record
RemoveOwnFromIndex(ni, video) ==
    IF video.Name \in DOMAIN ni /\ ni[video.Name] = video.ID THEN Del(ni, video.Name) ELSE ni

\* DeleteVideo: delete(db.nameIndex, video.Name)
RemoveFromIndex(ni, video) == Del(ni, video.Name)

\* an insert that sets the latest pointer only when there is none
KeepLatest(cur, v) == IF cur = "" THEN v.ID ELSE cur

\* AddVideo: db.latestID = v.ID
LatestAfterAdd(cur, v) == v.ID

\* the number of db.saveToDisk() calls that hold the read lock
Readers == Cardinality({i \in DOMAIN savers : savers[i].locked})

\* a reader that takes no lock
NoRLock == TRUE

\* db.mutex.RLock() returns: no writer holds the lock
RLock == mutation.pc = "idle"

\* db.mutex.Lock() returns: nobody holds the lock
Lock == mutation.pc = "idle" /\ Readers = 0

\* "go db.saveToDisk()"
SpawnSave == dbSaves' = dbSaves + 1

\* a delete that starts a snapshot though it found nothing
SaveAnyway == dbSaves' = dbSaves + 1

\* DeleteVideo returns false before it comes to "go db.saveToDisk()"
NoSave == dbSaves' = dbSaves

\* AddVideo(v): v is a Video the caller has just allocated; the store keeps
\* the caller's pointer
AddVideoCall(v) ==
    /\ Lock
    /\ dbSaves < MaxPending
    /\ v.ID \notin usedIDs
    /\ LET p == NewVideoPtr(v.ID)
           vs == Put(videos, v.ID, p)
       IN  /\ videos' = vs
           /\ heap' = Collect(Put(heap, p, v), vs, ret)
    /\ nameIndex' = AddToIndex(nameIndex, v)
    /\ latestID' = LatestAfterAdd(latestID, v)
    /\ usedIDs' = usedIDs \cup {v.ID}
    /\ SpawnSave
    /\ last' = [op |-> "AddVideo", v |-> v, ok |-> TRUE, wasLatest |-> FALSE]
    /\ UNCHANGED <<dbWritable, dbDisk, ret>>
    /\ UNCHANGED lockVars

\* AddVideo(v) where the caller is not followed
AddVideo(v) == AddVideoCall(v) /\ UNCHANGED <<whVars, httpVars>>

\* DeleteVideo(id): what the call does to the store
DeleteVideoCall(id) ==
    /\ Lock
    /\ IF id \notin DOMAIN videos
       THEN /\ last' = [op |-> "DeleteVideo", v |-> NoVideo, ok |-> FALSE,
                        wasLatest |-> FALSE]
            /\ NoSave
            /\ UNCHANGED <<heap, videos, nameIndex, latestID, usedIDs, dbWritable, dbDisk, ret>>
            /\ UNCHANGED lockVars
       ELSE /\ dbSaves < MaxPending
            /\ UNCHANGED lockVars
            /\ LET video == heap[videos[id]]
                   vs == Del(videos, id)
               IN  /\ videos' = vs
                   /\ nameIndex' = RemoveFromIndex(nameIndex, video)
                   /\ IF latestID = id
                      THEN \E order \in Orders(DOMAIN vs) :
                               latestID' = ScanLatest(order, vs, heap, "")
                      ELSE latestID' = latestID
                   /\ heap' = Collect(heap, vs, ret)
                   /\ last' = [op |-> "DeleteVideo", v |-> video, ok |-> TRUE,
                               wasLatest |-> (latestID = id)]
            /\ SpawnSave
            /\ UNCHANGED <<usedIDs, dbWritable, dbDisk, ret>>

\* DeleteVideo(id) where the caller is not followed
DeleteVideo(id) == DeleteVideoCall(id) /\ UNCHANGED <<whVars, httpVars>>

\* a lookup that hands out the stored pointers themselves
ReturnStored(op, ok, from) ==
    /\ heap' = [p \in (DOMAIN heap) \cap (Range(videos) \cup Range(from)) |-> heap[p]]
    /\ ret' = [op |-> op, ok |-> ok, ptrs |-> from, written |-> FALSE]

\* a lookup returns: the caller drops what it held and receives the copies
\* "videoCopy := *video; return &videoCopy" made of the cells at from
Return(op, ok, from) ==
    LET kept == [p \in (DOMAIN heap) \cap Range(videos) |-> heap[p]]
        n == Len(from)
        addr == [i \in 1..n |-> CopyPtrs[i]]
    IN  /\ heap' = [p \in (DOMAIN kept) \cup Range(addr) |->
                       IF p \in Range(addr)
                       THEN heap[from[CHOOSE i \in 1..n : addr[i] = p]]
                       ELSE kept[p]]
        /\ ret' = [op |-> op, ok |-> ok, ptrs |-> addr, written |-> FALSE]

GetVideoByID(id) ==
    /\ RLock
    /\ IF id \notin DOMAIN videos
       THEN Return("GetVideoByID", FALSE, << >>)
       ELSE Return("GetVideoByID", TRUE, <<videos[id]>>)
    /\ UNCHANGED <<videos, nameIndex, latestID, usedIDs, dbSaves, dbWritable, dbDisk, last>>
    /\ UNCHANGED <<lockVars, whVars, httpVars>>

GetVideoByName(name) ==
    /\ RLock
    /\ IF name \notin DOMAIN nameIndex
       THEN Return("GetVideoByName", FALSE, << >>)
       ELSE IF nameIndex[name] \notin DOMAIN videos
            THEN Return("GetVideoByName", FALSE, << >>)
            ELSE Return("GetVideoByName", TRUE, <<videos[nameIndex[name]]>>)
    /\ UNCHANGED <<videos, nameIndex, latestID, usedIDs, dbSaves, dbWritable, dbDisk, last>>
    /\ UNCHANGED <<lockVars, whVars, httpVars>>

GetLatestVideo ==
    /\ RLock
    /\ IF latestID = ""
       THEN Return("GetLatestVideo", FALSE, << >>)
       ELSE IF latestID \notin DOMAIN videos
            THEN Return("GetLatestVideo", FALSE, << >>)
            ELSE Return("GetLatestVideo", TRUE, <<videos[latestID]>>)
    /\ UNCHANGED <<videos, nameIndex, latestID, usedIDs, dbSaves, dbWritable, dbDisk, last>>
    /\ UNCHANGED <<lockVars, whVars, httpVars>>

\* GetAllVideos: a copy of every record, in the order the range loop visits them
GetAllVideos ==
    /\ RLock
    /\ \E order \in Orders(DOMAIN videos) :
           Return("GetAllVideos", TRUE, [i \in 1..Len(order) |-> videos[order[i]]])
    /\ UNCHANGED <<videos, nameIndex, latestID, usedIDs, dbSaves, dbWritable, dbDisk, last>>
    /\ UNCHANGED <<lockVars, whVars, httpVars>>

\* the caller writes a field of the i-th record the lookup returned to it; the
\* model follows one write for each lookup
MutateReturned(i, field, value) ==
    /\ ~ret.written
    /\ i \in 1..Len(ret.ptrs)
    /\ heap[ret.ptrs[i]][field] # value
    /\ heap' = [heap EXCEPT ![ret.ptrs[i]][field] = value]
    /\ ret' = [ret EXCEPT !.written = TRUE]
    /\ UNCHANGED <<videos, nameIndex, latestID, usedIDs, dbSaves, dbWritable, dbDisk, last>>
    /\ UNCHANGED <<lockVars, whVars, httpVars>>

\* saveToDisk: runs as a whole under the read lock; a failed write is logged
\* and the file keeps its content
SaveToDisk ==
    /\ RLock
    /\ dbSaves > 0
    /\ dbSaves' = dbSaves - 1
    /\ IF dbWritable
       THEN \E order \in Orders(DOMAIN videos) :
                dbDisk' = [Videos |-> [i \in 1..Len(order) |-> heap[videos[order[i]]]],
                           NameIndex |-> nameIndex,
                           LatestID |-> latestID]
       ELSE dbDisk' = dbDisk
    /\ UNCHANGED <<heap, videos, nameIndex, latestID, usedIDs, dbWritable, last, ret>>
    /\ UNCHANGED <<lockVars, whVars, httpVars>>

----------------------------------------------------------------------------
(* InMemoryDB, statement by statement under db.mutex *)

\* the primary map, the name index and the latest pointer as they are now
Current ==
    [Videos |-> {heap[videos[id]] : id \in DOMAIN videos},
     NameIndex |-> nameIndex,
     LatestID |-> latestID]

\* AddVideo: db.mutex.Lock() returns
AddVideoLock(v) ==
    /\ Lock
    /\ dbSaves < MaxPending
    /\ v.ID \notin usedIDs
    /\ usedIDs' = usedIDs \cup {v.ID}
    /\ mutation' = [pc |-> "videos", op |-> "AddVideo", v |-> v, committed |-> Current]
    /\ UNCHANGED <<heap, videos, nameIndex, latestID, dbSaves, dbWritable, dbDisk, last, ret, savers>>
    /\ UNCHANGED <<whVars, httpVars>>

\* AddVideo: db.videos[v.ID] = v
AddVideoStore ==
    /\ mutation.op = "AddVideo" /\ mutation.pc = "videos"
    /\ LET v == mutation.v
           p == NewVideoPtr(v.ID)
           vs == Put(videos, v.ID, p)
       IN  /\ videos' = vs
           /\ heap' = Collect(Put(heap, p, v), vs, ret)
    /\ mutation' = [mutation EXCEPT !.pc = "nameIndex"]
    /\ UNCHANGED <<nameIndex, latestID, usedIDs, dbSaves, dbWritable, dbDisk, last, ret, savers>>
    /\ UNCHANGED <<whVars, httpVars>>

\* AddVideo: db.nameIndex[v.Name] = v.ID
AddVideoIndex ==
    /\ mutation.op = "AddVideo" /\ mutation.pc = "nameIndex"
    /\ nameIndex' = AddToIndex(nameIndex, mutation.v)
    /\ mutation' = [mutation EXCEPT !.pc = "latestID"]
    /\ UNCHANGED <<heap, videos, latestID, usedIDs, dbSaves, dbWritable, dbDisk, last, ret, savers>>
    /\ UNCHANGED <<whVars, httpVars>>

\* AddVideo: db.latestID = v.ID, "go db.saveToDisk()", and the deferred Unlock
AddVideoUnlock ==
    /\ mutation.op = "AddVideo" /\ mutation.pc = "latestID"
    /\ latestID' = LatestAfterAdd(latestID, mutation.v)
    /\ SpawnSave
    /\ last' = [op |-> "AddVideo", v |-> mutation.v, ok |-> TRUE, wasLatest |-> FALSE]
    /\ mutation' = [NoMutation EXCEPT !.committed = [Current EXCEPT !.LatestID = latestID']]
    /\ UNCHANGED <<heap, videos, nameIndex, usedIDs, dbWritable, dbDisk, ret, savers>>
    /\ UNCHANGED <<whVars, httpVars>>

\* DeleteVideo: db.mutex.Lock() returns and the record is looked up; when
\* there is none the call returns false and the deferred Unlock runs
DeleteVideoLock(id) ==
    /\ Lock
    /\ IF id \notin DOMAIN videos
       THEN /\ last' = [op |-> "DeleteVideo", v |-> NoVideo, ok |-> FALSE,
                        wasLatest |-> FALSE]
            /\ UNCHANGED mutation
       ELSE /\ dbSaves < MaxPending
            /\ mutation' = [pc |-> "videos", op |-> "DeleteVideo",
                            v |-> heap[videos[id]], committed |-> Current]
            /\ UNCHANGED last
    /\ UNCHANGED <<heap, videos, nameIndex, latestID, usedIDs, dbSaves, dbWritable, dbDisk, ret, savers>>
    /\ UNCHANGED <<whVars, httpVars>>

\* DeleteVideo: delete(db.videos, id)
DeleteVideoStore ==
    /\ mutation.op = "DeleteVideo" /\ mutation.pc = "videos"
    /\ LET vs == Del(videos, mutation.v.ID)
       IN  /\ videos' = vs
           /\ heap' = Collect(heap, vs, ret)
    /\ mutation' = [mutation EXCEPT !.pc = "nameIndex"]
    /\ UNCHANGED <<nameIndex, latestID, usedIDs, dbSaves, dbWritable, dbDisk, last, ret, savers>>
    /\ UNCHANGED <<whVars, httpVars>>

\* DeleteVideo: delete(db.nameIndex, video.Name)
DeleteVideoIndex ==
    /\ mutation.op = "DeleteVideo" /\ mutation.pc = "nameIndex"
    /\ nameIndex' = RemoveFromIndex(nameIndex, mutation.v)
    /\ mutation' = [mutation EXCEPT !.pc = "latestID"]
    /\ UNCHANGED <<heap, videos, latestID, usedIDs, dbSaves, dbWritable, dbDisk, last, ret, savers>>
    /\ UNCHANGED <<whVars, httpVars>>

\* DeleteVideo: the scan for the latest record, "go db.saveToDisk()", return
\* true, and the deferred Unlock
DeleteVideoUnlock ==
    /\ mutation.op = "DeleteVideo" /\ mutation.pc = "latestID"
    /\ IF latestID = mutation.v.ID
       THEN \E order \in Orders(DOMAIN videos) :
                latestID' = ScanLatest(order, videos, heap, "")
       ELSE latestID' = latestID
    /\ SpawnSave
    /\ last' = [op |-> "DeleteVideo", v |-> mutation.v, ok |-> TRUE,
                wasLatest |-> (latestID = mutation.v.ID)]
    /\ mutation' = [NoMutation EXCEPT !.committed = [Current EXCEPT !.LatestID = latestID']]
    /\ UNCHANGED <<heap, videos, nameIndex, usedIDs, dbWritable, dbDisk, ret, savers>>
    /\ UNCHANGED <<whVars, httpVars>>

\* json.MarshalIndent of the record saveToDisk builds: the videos in the order
\* the range loop visits them, the name index, the latest pointer
Marshal(order) ==
    [Videos |-> [i \in 1..Len(order) |-> heap[videos[order[i]]]],
     NameIndex |-> nameIndex,
     LatestID |-> latestID]

\* a saveToDisk that unlocks once it has built its record
ReleasedAfterCopy == FALSE

\* saveToDisk: "defer db.mutex.RUnlock()" keeps the read lock until it returns
HeldToReturn == TRUE

\* the goroutine of "go db.saveToDisk()" starts to run and comes to RLock
SaveBegin ==
    /\ dbSaves > 0
    /\ Len(savers) <= MaxPending
    /\ dbSaves' = dbSaves - 1
    /\ savers' = Append(savers, [pc |-> "rlock", data |-> NoDisk, locked |-> FALSE])
    /\ UNCHANGED <<heap, videos, nameIndex, latestID, usedIDs, dbWritable, dbDisk, last, ret, mutation>>
    /\ UNCHANGED <<whVars, httpVars>>

\* saveToDisk: RLock returns, the record is built and marshalled
SaveCopy(i) ==
    /\ i \in DOMAIN savers
    /\ savers[i].pc = "rlock"
    /\ RLock
    /\ \E order \in Orders(DOMAIN videos) :
           savers' = [savers EXCEPT ![i] = [pc |-> "write", data |-> Marshal(order),
                                            locked |-> HeldToReturn]]
    /\ UNCHANGED <<heap, videos, nameIndex, latestID, usedIDs, dbSaves, dbWritable, dbDisk, last, ret, mutation>>
    /\ UNCHANGED <<whVars, httpVars>>

\* saveToDisk: os.WriteFile returns, then the function; a failed write is
\* logged and the file keeps its content
SaveWrite(i) ==
    /\ i \in DOMAIN savers
    /\ savers[i].pc = "write"
    /\ dbDisk' = IF dbWritable THEN savers[i].data ELSE dbDisk
    /\ savers' = [j \in 1..(Len(savers) - 1) |-> IF j < i THEN savers[j] ELSE savers[j + 1]]
    /\ UNCHANGED <<heap, videos, nameIndex, latestID, usedIDs, dbSaves, dbWritable, last, ret, mutation>>
    /\ UNCHANGED <<whVars, httpVars>>

----------------------------------------------------------------------------
(* WebhookManager *)

\* a slice: backing array, length and capacity; a slice of capacity 0 has no
\* backing array
Slice(arr, len, cap) == [arr |-> arr, len |-> len, cap |-> cap]

NilSlice == Slice(0, 0, 0)

\* wm.webhooks[event]: the zero value for a missing key
SliceOf(event) == IF event \in DOMAIN webhooks THEN webhooks[event] ELSE NilSlice

\* the elements of a slice, read from its backing array
Elems(arrs, sl) == [i \in 1..sl.len |-> arrs[sl.arr][i]]

Zeros(n) == [i \in 1..n |-> ""]

NewArray(arrs) == CHOOSE a \in ArrayPtrs : a \notin DOMAIN arrs /\ \A b \in ArrayPtrs : b < a => b \in DOMAIN arrs

\* make([]string, 0, n)
Make(arrs, n) ==
    IF n = 0
    THEN [sl |-> Slice(0, 0, 0), arrs |-> arrs]
    ELSE LET a == NewArray(arrs)
         IN  [sl |-> Slice(a, 0, n), arrs |-> Put(arrs, a, Zeros(n))]

\* the capacity append grows a full slice of strings to
Grown(cap) == IF cap = 0 THEN 1 ELSE 2 * cap

\* append(sl, url)
AppendTo(arrs, sl, url) ==
    IF sl.len < sl.cap
    THEN [sl |-> Slice(sl.arr, sl.len + 1, sl.cap),
          arrs |-> [arrs EXCEPT ![sl.arr][sl.len + 1] = url]]
    ELSE LET a == NewArray(arrs)
             n == Grown(sl.cap)
         IN  [sl |-> Slice(a, sl.len + 1, n),
              arrs |-> Put(arrs, a, [i \in 1..n |-> IF i <= sl.len THEN arrs[sl.arr][i]
                                                    ELSE IF i = sl.len + 1 THEN url ELSE ""])]

\* a duplicate check that returns after the first element
FirstIs(list, url) == Len(list) > 0 /\ list[1] = url

\* the loop of AddWebhook: existingURL == url for some element
Contains(list, url) == \E i \in 1..Len(list) : list[i] = url

\* the loop of RemoveWebhook: appends to acc the elements of urls from the
\* i-th on that differ from url
RECURSIVE FilterLoop(_, _, _, _, _)
FilterLoop(arrs, urls, i, url, acc) ==
    IF i > urls.len
    THEN [sl |-> acc, arrs |-> arrs]
    ELSE LET existingURL == arrs[urls.arr][i]
         IN  IF existingURL # url
             THEN LET r == AppendTo(arrs, acc, existingURL)
                  IN  FilterLoop(r.arrs, urls, i + 1, url, r.sl)
             ELSE FilterLoop(arrs, urls, i + 1, url, acc)

\* a filter that reuses the backing array of urls (newUrls := urls[:0])
FilterInPlace(arrs, urls, url) ==
    FilterLoop(arrs, urls, 1, url, Slice(urls.arr, 0, urls.cap))

\* RemoveWebhook: newUrls := make([]string, 0, len(urls)), then the loop
Filtered(arrs, urls, url) ==
    LET m == Make(arrs, urls.len)
    IN  FilterLoop(m.arrs, urls, 1, url, m.sl)

\* garbage collection: only the arrays a slice still refers to remain
CollectArrays(arrs, ws, n) ==
    [a \in (DOMAIN arrs) \cap ({ws[e].arr : e \in DOMAIN ws} \cup {n.urls.arr}) |-> arrs[a]]

\* "go wm.saveToDisk()"
SpawnWebhookSave == whSaves' = whSaves + 1

\* AddWebhook(event, url)
AddWebhook(event, url) ==
    LET urls == SliceOf(event)
        present == Contains(Elems(arrays, urls), url)
    IN  /\ wlast' = [op |-> "AddWebhook", present |-> present,
                     known |-> event \in DOMAIN webhooks]
        /\ IF present
           THEN UNCHANGED <<webhooks, arrays, whSaves>>
           ELSE /\ whSaves < MaxPending
                /\ LET r == AppendTo(arrays, urls, url)
                       ws == Put(webhooks, event, r.sl)
                   IN  /\ webhooks' = ws
                       /\ arrays' = CollectArrays(r.arrs, ws, notify)
                /\ SpawnWebhookSave
        /\ UNCHANGED <<whWritable, whDisk, notify>>
        /\ UNCHANGED <<dbVars, httpVars>>

\* RemoveWebhook(event, url)
RemoveWebhook(event, url) ==
    LET urls == SliceOf(event)
    IN  /\ whSaves < MaxPending
        /\ wlast' = [op |-> "RemoveWebhook",
                     present |-> Contains(Elems(arrays, urls), url),
                     known |-> event \in DOMAIN webhooks]
        /\ LET r == Filtered(arrays, urls, url)
               ws == Put(webhooks, event, r.sl)
           IN  /\ webhooks' = ws
               /\ arrays' = CollectArrays(r.arrs, ws, notify)
        /\ SpawnWebhookSave
        /\ UNCHANGED <<whWritable, whDisk, notify>>
        /\ UNCHANGED <<dbVars, httpVars>>

\* GetWebhooks(event): a copy of the list
GetWebhooks(event) == Elems(arrays, SliceOf(event))

\* GetAllWebhooks(): a copy of every list, for the events that are keys
GetAllWebhooks == [event \in DOMAIN webhooks |-> Elems(arrays, webhooks[event])]

\* saveToDisk: the registry serialized as a whole under the read lock
SaveWebhooksToDisk ==
    /\ whSaves > 0
    /\ whSaves' = whSaves - 1
    /\ whDisk' = IF whWritable THEN GetAllWebhooks ELSE whDisk
    /\ UNCHANGED <<webhooks, arrays, whWritable, notify, wlast>>
    /\ UNCHANGED <<dbVars, httpVars>>

\* the event the server notifies of (uploadVideoHandler)
Uploaded == "video.uploaded"

NoNotify ==
    [pc |-> "idle", event |-> "", urls |-> NilSlice, registered |-> << >>,
     next |-> 1, sent |-> << >>, posts |-> << >>, attempts |-> << >>]

NoUpload == [pc |-> "idle", status |-> 0]

\* what client.Do(req) may come to: an error, a 2xx status, another status
Outcomes == {"error", "2xx", "other"}

\* uploadVideoHandler, "go s.webhookMgr.NotifyWebhooks(...)": the call starts
\* in a goroutine of its own and the handler goes on.  The model follows one
\* call and its deliveries at a time
UploadNotify ==
    /\ upload.pc \in {"idle", "done"}
    /\ notify.pc \in {"idle", "returned"}
    /\ \A i \in 1..Len(notify.posts) : notify.posts[i] # "started"
    /\ upload' = [pc |-> "go", status |-> 0]
    /\ notify' = [NoNotify EXCEPT !.pc = "spawned", !.event = Uploaded]
    /\ arrays' = CollectArrays(arrays, webhooks, NoNotify)
    /\ UNCHANGED <<webhooks, whSaves, whWritable, whDisk, wlast>>
    /\ UNCHANGED <<files, response, pureVars, reqVars>>
    /\ UNCHANGED dbVars

\* uploadVideoHandler, c.JSON(http.StatusCreated, ...)
UploadRespond ==
    /\ upload.pc = "go"
    /\ upload' = [pc |-> "done", status |-> 201]
    /\ UNCHANGED <<files, response, pureVars, reqVars>>
    /\ UNCHANGED <<dbVars, whVars>>

\* NotifyWebhooks(event, payload), first step: urls := wm.webhooks[event] under
\* the read lock.  registered keeps the list as it is at this moment.  The
\* payloads the server passes (a gin.H of a Video, a string and an int64)
\* always marshal, so the call goes on to the range loop
NotifyRead(event) ==
    /\ notify.pc = "spawned"
    /\ notify.event = event
    /\ LET n == [notify EXCEPT !.pc = "range", !.urls = SliceOf(event),
                               !.registered = Elems(arrays, SliceOf(event))]
       IN  /\ notify' = n
           /\ arrays' = CollectArrays(arrays, webhooks, n)
    /\ UNCHANGED <<webhooks, whSaves, whWritable, whDisk, wlast>>
    /\ UNCHANGED <<dbVars, httpVars>>

\* one iteration of "for _, url := range urls": the element is read from the
\* backing array now, and "go wm.sendWebhookNotification(url, payloadBytes)"
NotifyDispatch ==
    /\ notify.pc = "range"
    /\ notify.next <= notify.urls.len
    /\ LET url == arrays[notify.urls.arr][notify.next]
       IN  notify' = [notify EXCEPT !.next = @ + 1,
                                    !.sent = Append(@, url),
                                    !.posts = Append(@, "started"),
                                    !.attempts = Append(@, 0)]
    /\ UNCHANGED <<webhooks, arrays, whSaves, whWritable, whDisk, wlast>>
    /\ UNCHANGED <<dbVars, httpVars>>

\* a return that joins the deliveries first
AllDelivered(posts) == \A i \in 1..Len(posts) : posts[i] # "started"

\* what NotifyWebhooks waits for after the range loop: nothing, whatever the
\* deliveries have come to
NothingAwaited(posts) == TRUE

\* the range loop is over: NotifyWebhooks returns
NotifyReturn ==
    /\ notify.pc = "range"
    /\ notify.next > notify.urls.len
    /\ NothingAwaited(notify.posts)
    /\ notify' = [notify EXCEPT !.pc = "returned"]
    /\ UNCHANGED <<webhooks, arrays, whSaves, whWritable, whDisk, wlast>>
    /\ UNCHANGED <<dbVars, httpVars>>

\* a delivery that goes back to the POST unless the subscriber answered 2xx
RetryUnlessOK(outcome) == IF outcome = "2xx" THEN "posted" ELSE "started"

\* sendWebhookNotification after client.Do: an error is logged and the
\* function returns; a status is logged, as a warning or as a success, and
\* the function ends
AfterDo(outcome) == "posted"

\* sendWebhookNotification for the i-th dispatch: one client.Do(req), which
\* comes to outcome
SendWebhookNotification(i, outcome) ==
    /\ i \in 1..Len(notify.posts)
    /\ notify.posts[i] = "started"
    /\ notify' = [notify EXCEPT !.posts[i] = AfterDo(outcome),
                                !.attempts[i] = @ + 1]
    /\ UNCHANGED <<webhooks, arrays, whSaves, whWritable, whDisk, wlast>>
    /\ UNCHANGED <<dbVars, httpVars>>

----------------------------------------------------------------------------
(* Byte ranges: parseRangeHeader and parseNumber.  A string is the sequence *)
(* of its characters                                                        *)

BytesPrefix == <<"b", "y", "t", "e", "s", "=">>

DigitChars == <<"0", "1", "2", "3", "4", "5", "6", "7", "8", "9">>

IsDigit(c) == \E d \in 1..Len(DigitChars) : DigitChars[d] = c

DigitValue(c) == (CHOOSE d \in 1..Len(DigitChars) : DigitChars[d] = c) - 1

\* the %d of fmt.Sprintf, for a number that is not negative
RECURSIVE Itoa(_)
Itoa(n) ==
    IF n < Len(DigitChars)
    THEN <<DigitChars[n + 1]>>
    ELSE Itoa(n \div Len(DigitChars)) \o <<DigitChars[(n % Len(DigitChars)) + 1]>>

\* strings.HasPrefix
HasPrefix(s, prefix) == Len(s) >= Len(prefix) /\ SubSeq(s, 1, Len(prefix)) = prefix

\* strings.TrimPrefix
TrimPrefix(s, prefix) ==
    IF HasPrefix(s, prefix) THEN SubSeq(s, Len(prefix) + 1, Len(s)) ELSE s

\* strings.Split(s, sep) for a separator of one character: cur is the part
\* being read, acc the parts before it
RECURSIVE SplitLoop(_, _, _, _)
SplitLoop(s, sep, cur, acc) ==
    IF s = << >>
    THEN Append(acc, cur)
    ELSE IF Head(s) = sep
         THEN SplitLoop(Tail(s), sep, << >>, Append(acc, cur))
         ELSE SplitLoop(Tail(s), sep, Append(cur, Head(s)), acc)

Split(s, sep) == SplitLoop(s, sep, << >>, << >>)

\* fmt's SkipSpace: the input without its leading spaces
RECURSIVE SkipSpace(_)
SkipSpace(s) == IF s # << >> /\ Head(s) = " " THEN SkipSpace(Tail(s)) ELSE s

\* fmt's scanNumber: the digits the input starts with
RECURSIVE ScanNumber(_)
ScanNumber(s) ==
    IF s # << >> /\ IsDigit(Head(s)) THEN <<Head(s)>> \o ScanNumber(Tail(s)) ELSE << >>

\* strconv.ParseInt(tok, 10, 64) of a token of digits, acc the value so far.
\* The tokens of the model are far shorter than the 19 digits of an int64
RECURSIVE ParseInt(_, _)
ParseInt(tok, acc) ==
    IF tok = << >>
    THEN acc
    ELSE ParseInt(Tail(tok), Len(DigitChars) * acc + DigitValue(Head(tok)))

\* parseNumber(s): fmt.Sscanf(s, "%d", &n).  Sscanf skips leading spaces,
\* fails at the end of the input, takes a sign, fails unless a digit follows,
\* and reads the digits up to the first other character; what is left of the
\* input after them is not looked at
parseNumber(s) ==
    LET t == SkipSpace(s)
        signed == t # << >> /\ Head(t) \in {"+", "-"}
        tok == ScanNumber(IF signed THEN Tail(t) ELSE t)
    IN  IF t = << >> \/ tok = << >>
        THEN [ok |-> FALSE, n |-> 0]
        ELSE [ok |-> TRUE,
              n |-> IF signed /\ Head(t) = "-" THEN 0 - ParseInt(tok, 0) ELSE ParseInt(tok, 0)]

\* parseRangeHeader has not been called
NoParse == [done |-> FALSE, ok |-> FALSE, start |-> 0, end |-> 0]

\* parseRangeHeader returns an error
Rejected == [ok |-> FALSE, start |-> 0, end |-> 0]

\* parseRangeHeader returns start, end, nil
Accepted(start, end) == [ok |-> TRUE, start |-> start, end |-> end]

\* a check that turns down the last byte of the resource as well
OutOfBoundsAtLast(start, end, size) ==
    start < 0 \/ start >= size \/ end < start \/ end >= size - 1

\* the validation of parseRangeHeader
OutOfBounds(start, end, size) ==
    start < 0 \/ start >= size \/ end < start \/ end >= size

\* a suffix that is clamped to the start of the resource
SuffixStartClamped(size, n) == IF n > size THEN 0 ELSE size - n

\* "bytes=-N": start = fileSize - end
SuffixStart(size, n) == size - n

\* an end one past the last byte
PastLastByte(size) == size

\* "bytes=N-": end = fileSize - 1
LastByte(size) == size - 1

Validated(start, end, size) ==
    IF OutOfBounds(start, end, size) THEN Rejected ELSE Accepted(start, end)

\* parseRangeHeader(rangeHeader, fileSize)
parseRangeHeader(header, size) ==
    IF header = << >>
    THEN Accepted(0, size - 1)
    ELSE IF ~HasPrefix(header, BytesPrefix)
    THEN Rejected
    ELSE LET rangeStr == TrimPrefix(header, BytesPrefix)
             parts == Split(rangeStr, "-")
         IN  IF Len(parts) # 2
             THEN Rejected
             ELSE IF parts[1] = << >>
             THEN LET n == parseNumber(parts[2])
                  IN  IF ~n.ok
                      THEN Rejected
                      ELSE Validated(SuffixStart(size, n.n), size - 1, size)
             ELSE IF parts[2] = << >>
             THEN LET n == parseNumber(parts[1])
                  IN  IF ~n.ok
                      THEN Rejected
                      ELSE Validated(n.n, LastByte(size), size)
             ELSE LET n == parseNumber(parts[1])
                      m == parseNumber(parts[2])
                  IN  IF ~n.ok \/ ~m.ok
                      THEN Rejected
                      ELSE Validated(n.n, m.n, size)

\* a call of parseRangeHeader on the header and the length of the state
ParseRangeHeader ==
    /\ ~parsed.done
    /\ LET r == parseRangeHeader(rangeHeader, fileSize)
       IN  parsed' = [done |-> TRUE, ok |-> r.ok, start |-> r.start, end |-> r.end]
    /\ UNCHANGED <<upload, files, response, rangeHeader, fileSize, nameVars, pageVars, reqVars>>
    /\ UNCHANGED <<dbVars, whVars>>

----------------------------------------------------------------------------
(* downloadVideoHandler and serveRangeRequest *)

\* filepath.Join(s.config.StoragePath, videoID+"_"+name): the identifier is a
\* UUID of fixed length, so the name of the file determines both parts
FilePath(id, name) == <<id, name>>

\* the bytes of an uploaded file of the given length: each holds its offset
Content(size) == [i \in 1..size |-> i - 1]

\* c.SaveUploadedFile(file, filePath) of uploadVideoHandler, for the
\* identifier uuid.New() returned
SaveUploadedFile(id, name, size) ==
    /\ id \notin usedIDs
    /\ \A path \in DOMAIN files : path[1] # id
    /\ files' = Put(files, FilePath(id, name), Content(size))
    /\ UNCHANGED <<upload, response, pureVars, reqVars>>
    /\ UNCHANGED <<dbVars, whVars>>

\* uploadVideoHandler once the file is saved: the record is made and
\* s.db.AddVideo(video) called
AddUploaded(id, name) ==
    /\ FilePath(id, name) \in DOMAIN files
    /\ AddVideo(Video(id, name, 1))

NoResponse ==
    [id |-> "", header |-> << >>, status |-> 0, parsed |-> NoParse, total |-> 0,
     contentRange |-> << >>, contentLength |-> 0 - 1, acceptRanges |-> FALSE,
     body |-> << >>, copyErr |-> FALSE]

Min(a, b) == IF a < b THEN a ELSE b

\* fmt.Sprintf("bytes %d-%d/%d", start, end, stat.Size())
ContentRange(start, end, size) ==
    <<"b", "y", "t", "e", "s", " ">> \o Itoa(start) \o <<"-">> \o Itoa(end)
        \o <<"/">> \o Itoa(size)

\* a header that leaves the length out
UnsatisfiableNoTotal(size) == <<"b", "y", "t", "e", "s", " ", "*", "/", "*">>

\* fmt.Sprintf("bytes */%d", stat.Size())
Unsatisfiable(size) == <<"b", "y", "t", "e", "s", " ", "*", "/">> \o Itoa(size)

\* a copy that starts at the beginning of the file
FromBeginning(content, start) == content

\* file.Seek(start, 0): what is left to read.  The file is a regular one and
\* start is within it, so the call does not fail
Seek(content, start) == SubSeq(content, start + 1, Len(content))

\* io.CopyN(c.Writer, file, n) where the writer takes no more than k bytes:
\* what is written, and whether an error is returned (the writer failed, or
\* the file ended before n bytes)
CopyN(src, n, k) ==
    [written |-> SubSeq(src, 1, Min(Min(n, k), Len(src))),
     err |-> (k < n \/ Len(src) < n)]

\* serveRangeRequest: opens tells whether os.Open succeeds
serveRangeRequest(resp, content, opens, k) ==
    IF ~opens
    THEN [resp EXCEPT !.status = 500]
    ELSE LET size == Len(content)
             r == parseRangeHeader(resp.header, size)
             p == [done |-> TRUE, ok |-> r.ok, start |-> r.start, end |-> r.end]
         IN  IF ~r.ok
             THEN [resp EXCEPT !.parsed = p, !.total = size, !.status = 416,
                               !.contentRange = Unsatisfiable(size)]
             ELSE LET contentLength == r.end - r.start + 1
                      copy == CopyN(Seek(content, r.start), contentLength, k)
                  IN  [resp EXCEPT !.parsed = p, !.total = size, !.status = 206,
                                   !.contentLength = contentLength,
                                   !.contentRange = ContentRange(r.start, r.end, size),
                                   !.acceptRanges = TRUE,
                                   !.body = copy.written,
                                   !.copyErr = copy.err]

\* the length of the file of a record, 0 when there is none
StoredLength(videoID) ==
    LET found == LookupByID(videoID)
    IN  IF found.ok /\ FilePath(videoID, found.v.Name) \in DOMAIN files
        THEN Len(files[FilePath(videoID, found.v.Name)])
        ELSE 0

\* downloadVideoHandler for GET /api/videos/videoID with the given Range
\* header (empty when there is none); the client takes k bytes of the body.
\* Without a Range header http.ServeFile answers 200 with the whole file.
\* opens and k are given only where the handler comes to use them
DownloadVideoHandler(videoID, header, opens, k) ==
    LET found == LookupByID(videoID)
        filePath == FilePath(videoID, found.v.Name)
        resp == [NoResponse EXCEPT !.id = videoID, !.header = header]
        served == found.ok /\ filePath \in DOMAIN files
        new == IF ~found.ok
               THEN [resp EXCEPT !.status = 404]
               ELSE IF filePath \notin DOMAIN files
               THEN [resp EXCEPT !.status = 404]
               ELSE IF header # << >>
               THEN serveRangeRequest(resp, files[filePath], opens, k)
               ELSE [resp EXCEPT !.status = 200, !.total = Len(files[filePath]),
                                 !.contentLength = Len(files[filePath]),
                                 !.acceptRanges = TRUE,
                                 !.body = CopyN(files[filePath], Len(files[filePath]), k).written,
                                 !.copyErr = CopyN(files[filePath], Len(files[filePath]), k).err]
    IN  /\ ~(served /\ header # << >>) => opens
        /\ k <= IF new.status \in {200, 206} THEN new.contentLength ELSE 0
        /\ response' = new
        /\ UNCHANGED <<upload, files, pureVars, reqVars>>
        /\ UNCHANGED <<dbVars, whVars>>

----------------------------------------------------------------------------
(* sanitizeFilename *)

\* the length above which sanitizeFilename shortens a name
NameCap == 255

\* strings.ReplaceAll(s, old, new) for single characters
ReplaceAll(s, old, new) == [i \in 1..Len(s) |-> IF s[i] = old THEN new ELSE s[i]]

\* filepath.Ext(path): the loop goes back from the end of the path to the
\* first dot and stops at a separator; the suffix from that dot on, empty if
\* there is none
Ext(path) ==
    LET dots == {i \in 1..Len(path) :
                    path[i] = "." /\ \A j \in (i + 1)..Len(path) : path[j] \notin {".", "/"}}
    IN  IF dots = {} THEN << >> ELSE SubSeq(path, CHOOSE i \in dots : TRUE, Len(path))

NoName == [done |-> FALSE, panic |-> FALSE, name |-> << >>]

\* sanitizeFilename(filename).  filename[:255-len(ext)] panics when the bound
\* is negative
sanitizeFilename(name) ==
    LET replaced == ReplaceAll(ReplaceAll(name, "/", "_"), "\\", "_")
    IN  IF Len(replaced) > NameCap
        THEN LET ext == Ext(replaced)
             IN  IF NameCap - Len(ext) < 0
                 THEN [done |-> TRUE, panic |-> TRUE, name |-> << >>]
                 ELSE [done |-> TRUE, panic |-> FALSE,
                       name |-> SubSeq(replaced, 1, NameCap - Len(ext)) \o ext]
        ELSE [done |-> TRUE, panic |-> FALSE, name |-> replaced]

\* a call of sanitizeFilename on the name of the state
SanitizeFilename ==
    /\ ~sanitized.done
    /\ sanitized' = sanitizeFilename(filename)
    /\ UNCHANGED <<upload, files, response, rangeVars, filename, pageVars, reqVars>>
    /\ UNCHANGED <<dbVars, whVars>>

----------------------------------------------------------------------------
(* getAllVideosHandler: the page of the listing.  The int of the server is  *)
(* a two's complement integer; the model gives it IntBits bits              *)

MinInt == 0 - 2 ^ (IntBits - 1)
MaxInt == 2 ^ (IntBits - 1) - 1

\* the int a result of unbounded arithmetic wraps to
Wrap(x) == ((x - MinInt) % (2 ^ IntBits)) + MinInt

\* (page - 1) * limit on ints
IntTimes(a, b) == Wrap(a * b)

\* strconv.Atoi returned val, nil
Parsed(val) == [val |-> val, err |-> FALSE]

\* strconv.Atoi returned 0 and an error (not a number, or out of the range
\* of int)
NotAnInt == [val |-> 0, err |-> TRUE]

NoQuery == [page |-> NotAnInt, limit |-> NotAnInt, n |-> 0]

NoWindow == [done |-> FALSE, panic |-> FALSE, page |-> 0, limit |-> 0, start |-> 0, end |-> 0]

\* getAllVideosHandler from the parsed parameters to allVideos[start:end],
\* n being len(allVideos), which is its capacity too; the slice expression
\* panics unless 0 <= start <= end <= n
Paginate(q) ==
    LET page == IF q.page.err \/ q.page.val < 1 THEN 1 ELSE q.page.val
        limit == IF q.limit.err \/ q.limit.val < 1 \/ q.limit.val > 100
                 THEN 20
                 ELSE q.limit.val
        start0 == IntTimes(Wrap(page - 1), limit)
        start == IF start0 >= q.n THEN q.n ELSE start0
        end0 == Wrap(start + limit)
        end == IF end0 > q.n THEN q.n ELSE end0
    IN  [done |-> TRUE, panic |-> ~(0 <= start /\ start <= end /\ end <= q.n),
         page |-> page, limit |-> limit, start |-> start, end |-> end]

\* a call of getAllVideosHandler with the parameters of the state
GetAllVideosHandler ==
    /\ ~window.done
    /\ window' = Paginate(query)
    /\ UNCHANGED <<upload, files, response, rangeVars, nameVars, query, reqVars>>
    /\ UNCHANGED <<dbVars, whVars>>

\* the download the model follows
Download(videoID, header, opens, k) ==
    /\ response = NoResponse
    /\ DownloadVideoHandler(videoID, header, opens, k)

----------------------------------------------------------------------------
(* InMemoryDB.loadFromDisk *)

\* "for _, video := range record.Videos": each record of the list, in the
\* order of the list, is put into the primary map under its identifier and
\* into the name index under its name
RECURSIVE LoadLoop(_, _)
LoadLoop(list, acc) ==
    IF list = << >>
    THEN acc
    ELSE LET video == Head(list)
         IN  LoadLoop(Tail(list),
                      [videos |-> Put(acc.videos, video.ID, video),
                       nameIndex |-> Put(acc.nameIndex, video.Name, video.ID)])

\* NewInMemoryDB of a process that starts when the one before it has stopped
\* and none of its snapshot writers is left: empty maps, then loadFromDisk,
\* which returns at once when there is no database.json and otherwise takes
\* the records from the list and the latest identifier as it is recorded; the
\* name index of the file is not read
LoadFromDisk ==
    /\ Lock
    /\ dbSaves = 0
    /\ LET loaded == IF dbDisk = NoDisk
                     THEN [videos |-> EmptyMap, nameIndex |-> EmptyMap]
                     ELSE LoadLoop(dbDisk.Videos, [videos |-> EmptyMap, nameIndex |-> EmptyMap])
       IN  /\ videos' = [id \in DOMAIN loaded.videos |-> NewVideoPtr(id)]
           /\ heap' = [p \in {NewVideoPtr(id) : id \in DOMAIN loaded.videos} |->
                          loaded.videos[CHOOSE id \in DOMAIN loaded.videos : NewVideoPtr(id) = p]]
           /\ nameIndex' = loaded.nameIndex
    /\ latestID' = IF dbDisk = NoDisk THEN "" ELSE dbDisk.LatestID
    /\ last' = [NoLast EXCEPT !.op = "loadFromDisk"]
    /\ ret' = NoRet
    /\ UNCHANGED <<usedIDs, dbSaves, dbWritable, dbDisk>>
    /\ UNCHANGED <<lockVars, whVars, httpVars>>

----------------------------------------------------------------------------
(* InMemoryDB.FindVideoByFilePrefix *)

\* "return video, true": the caller drops what it held and receives the
\* pointer the primary map holds
ReturnPointer(op, p) ==
    /\ heap' = [q \in (DOMAIN heap) \cap Range(videos) |-> heap[q]]
    /\ ret' = [op |-> op, ok |-> TRUE, ptrs |-> <<p>>, written |-> FALSE]

\* the files of the storage directory whose name starts with filePrefix + "_"
\* and whose remainder the name index leads to a record
Resolved(filePrefix) ==
    {path \in DOMAIN files :
        /\ path[1] = filePrefix
        /\ path[2] \in DOMAIN nameIndex
        /\ nameIndex[path[2]] \in DOMAIN videos}

\* FindVideoByFilePrefix(storagePath, filePrefix): readable is whether
\* os.ReadDir(storagePath) succeeds
FindVideoByFilePrefix(filePrefix, readable) ==
    /\ RLock
    /\ IF filePrefix \in DOMAIN videos
       THEN ReturnPointer("FindVideoByFilePrefix", videos[filePrefix])
       ELSE IF ~readable \/ Resolved(filePrefix) = {}
            THEN Return("FindVideoByFilePrefix", FALSE, << >>)
            ELSE \E path \in Resolved(filePrefix) :
                     Return("FindVideoByFilePrefix", TRUE, <<videos[nameIndex[path[2]]]>>)
    /\ UNCHANGED <<videos, nameIndex, latestID, usedIDs, dbSaves, dbWritable, dbDisk, last>>
    /\ UNCHANGED <<lockVars, whVars, httpVars>>

----------------------------------------------------------------------------
(* uploadVideoHandler and deleteVideoHandler, a statement at a time *)

NoRequest ==
    [kind |-> "none", pc |-> "idle", id |-> "", name |-> "", size |-> 0, t |-> 0, status |-> 0]

\* now is the last reading of the clock
NoFlow == [issued |-> {}, persisted |-> {}, dispatched |-> {}, now |-> 1]

\* a request that is answered: the handler has returned and its locals are gone
Answered(kind, id, status) ==
    [kind |-> kind, pc |-> "done", id |-> id, name |-> "", size |-> 0, t |-> 0, status |-> status]

\* uuid.New(): an identifier that no request had before; which one it is plays
\* no part, the model takes them in order
NewID ==
    LET i == CHOOSE i \in 1..Len(IDOrder) :
                 IDOrder[i] \notin flow.issued /\ \A j \in 1..(i - 1) : IDOrder[j] \in flow.issued
    IN  IDOrder[i]

\* file.Size > s.config.MaxFileSize
TooLarge(size) == size > MaxFile

\* uploadVideoHandler up to the file path: the form is parsed, the file is
\* looked for and its size checked, then uuid.New() gives an identifier no
\* request had before.  form is "invalid", "empty" or "file"; the names tried
\* are ones sanitizeFilename returns as they are
UploadCheck(r, form, name, size) ==
    /\ reqs[r].pc \in {"idle", "done"}
    /\ IF form = "invalid" \/ form = "empty"
       THEN /\ reqs' = [reqs EXCEPT ![r] = Answered("upload", "", 400)]
            /\ UNCHANGED flow
       ELSE IF TooLarge(size)
            THEN /\ reqs' = [reqs EXCEPT ![r] = Answered("upload", "", 400)]
                 /\ UNCHANGED flow
            ELSE /\ flow.issued # Range(IDOrder)
                 /\ reqs' = [reqs EXCEPT ![r] = [kind |-> "upload", pc |-> "save", id |-> NewID,
                                                 name |-> name, size |-> size, t |-> 0,
                                                 status |-> 0]]
                 /\ flow' = [flow EXCEPT !.issued = @ \cup {NewID}]
    /\ UNCHANGED <<upload, files, response, pureVars>>
    /\ UNCHANGED <<dbVars, whVars>>

\* a handler that goes on after c.SaveUploadedFile failed
SaveIgnored == "stat"

\* uploadVideoHandler returns once it has answered that the file was not saved
SaveFailed == "done"

\* a save that reports success and writes nothing
PersistNothing(fs, path, content) == fs

\* c.SaveUploadedFile(file, filePath) when it succeeds
Persist(fs, path, content) == Put(fs, path, content)

\* uploadVideoHandler, c.SaveUploadedFile(file, filePath): ok is whether it succeeds
UploadSave(r, ok) ==
    /\ reqs[r].kind = "upload" /\ reqs[r].pc = "save"
    /\ IF ok
       THEN /\ files' = Persist(files, FilePath(reqs[r].id, reqs[r].name), Content(reqs[r].size))
            /\ reqs' = [reqs EXCEPT ![r].pc = "stat"]
            /\ flow' = [flow EXCEPT !.persisted = @ \cup {reqs[r].id}]
       ELSE /\ reqs' = [reqs EXCEPT ![r] = [Answered("upload", reqs[r].id, 500)
                                                EXCEPT !.pc = SaveFailed]]
            /\ UNCHANGED <<files, flow>>
    /\ UNCHANGED <<upload, response, pureVars>>
    /\ UNCHANGED <<dbVars, whVars>>

\* uploadVideoHandler, os.Stat(filePath) and, when it succeeds, the Video that
\* is built with CreatedAt: time.Now(): ok is whether os.Stat succeeds, t what
\* the clock reads, which is never less than it read before
UploadStat(r, ok, t) ==
    /\ reqs[r].kind = "upload" /\ reqs[r].pc = "stat"
    /\ IF ok
       THEN /\ t >= flow.now
            /\ reqs' = [reqs EXCEPT ![r].pc = "add", ![r].t = t]
            /\ flow' = [flow EXCEPT !.now = t]
       ELSE /\ reqs' = [reqs EXCEPT ![r] = Answered("upload", reqs[r].id, 500)]
            /\ UNCHANGED flow
    /\ UNCHANGED <<upload, files, response, pureVars>>
    /\ UNCHANGED <<dbVars, whVars>>

\* uploadVideoHandler, s.db.AddVideo(video)
UploadInsert(r) ==
    /\ reqs[r].kind = "upload" /\ reqs[r].pc = "add"
    /\ AddVideoCall(Video(reqs[r].id, reqs[r].name, reqs[r].t))
    /\ reqs' = [reqs EXCEPT ![r].pc = "go"]
    /\ UNCHANGED <<upload, files, response, pureVars, flow>>
    /\ UNCHANGED whVars

\* uploadVideoHandler, "go s.webhookMgr.NotifyWebhooks("video.uploaded", ...)"
\* and c.JSON(http.StatusCreated, ...)
UploadGo(r) ==
    /\ reqs[r].kind = "upload" /\ reqs[r].pc = "go"
    /\ flow' = [flow EXCEPT !.dispatched = @ \cup {reqs[r].id}]
    /\ reqs' = [reqs EXCEPT ![r] = Answered("upload", reqs[r].id, 201)]
    /\ UNCHANGED <<upload, files, response, pureVars>>
    /\ UNCHANGED <<dbVars, whVars>>

\* deleteVideoHandler, s.db.GetVideoByID(videoID): 404 when there is no record
DeleteLookup(r, id) ==
    /\ reqs[r].pc \in {"idle", "done"}
    /\ RLock
    /\ LET found == LookupByID(id)
       IN  IF ~found.ok
           THEN reqs' = [reqs EXCEPT ![r] = Answered("delete", id, 404)]
           ELSE reqs' = [reqs EXCEPT ![r] = [kind |-> "delete", pc |-> "delete", id |-> id,
                                            name |-> found.v.Name, size |-> 0, t |-> 0,
                                            status |-> 0]]
    /\ UNCHANGED <<upload, files, response, pureVars, flow>>
    /\ UNCHANGED <<dbVars, whVars>>

\* deleteVideoHandler, deleted := s.db.DeleteVideo(videoID): 500 when it is false
DeleteCall(r) ==
    /\ reqs[r].kind = "delete" /\ reqs[r].pc = "delete"
    /\ DeleteVideoCall(reqs[r].id)
    /\ IF reqs[r].id \in DOMAIN videos
       THEN reqs' = [reqs EXCEPT ![r].pc = "remove"]
       ELSE reqs' = [reqs EXCEPT ![r] = Answered("delete", reqs[r].id, 500)]
    /\ UNCHANGED <<upload, files, response, pureVars, flow>>
    /\ UNCHANGED whVars

\* deleteVideoHandler, os.Remove(filePath) and c.JSON(http.StatusOK, ...): ok is
\* whether the file can be removed; an error is logged and nothing more
DeleteRemove(r, ok) ==
    /\ reqs[r].kind = "delete" /\ reqs[r].pc = "remove"
    /\ files' = IF ok THEN Del(files, FilePath(reqs[r].id, reqs[r].name)) ELSE files
    /\ reqs' = [reqs EXCEPT ![r] = Answered("delete", reqs[r].id, 200)]
    /\ UNCHANGED <<upload, response, pureVars, flow>>
    /\ UNCHANGED <<dbVars, whVars>>

NoWlast == [op |-> "none", present |-> FALSE, known |-> FALSE]

InitWH ==
    /\ webhooks = EmptyMap
    /\ arrays = EmptyMap
    /\ whSaves = 0
    /\ whDisk = EmptyMap
    /\ notify = NoNotify
    /\ wlast = NoWlast

\* no request is in progress
InitReqs ==
    /\ reqs = [r \in Requests |-> NoRequest]
    /\ flow = NoFlow

\* no call of sanitizeFilename is followed
InitName ==
    /\ filename = << >>
    /\ sanitized = NoName

\* no call of getAllVideosHandler is followed
InitPage ==
    /\ query = NoQuery
    /\ window = NoWindow

InitHTTP ==
    /\ upload = NoUpload
    /\ files = EmptyMap
    /\ rangeHeader = << >>
    /\ fileSize = 0
    /\ parsed = NoParse
    /\ response = NoResponse
    /\ InitName
    /\ InitPage
    /\ InitReqs

InitDB ==
    /\ heap = EmptyMap
    /\ videos = EmptyMap
    /\ nameIndex = EmptyMap
    /\ latestID = ""
    /\ usedIDs = {}
    /\ dbSaves = 0
    /\ dbDisk = NoDisk
    /\ last = NoLast
    /\ ret = NoRet
    /\ mutation = NoMutation
    /\ savers = << >>

\* the store with a writable database.json
Init ==
    /\ InitDB
    /\ dbWritable = TRUE
    /\ InitWH
    /\ InitHTTP
    /\ whWritable = TRUE

Mutations ==
    \/ \E id \in VideoIDs, name \in Names, t \in Times : AddVideo(Video(id, name, t))
    \/ \E id \in VideoIDs : DeleteVideo(id)
    \/ SaveToDisk

Lookups ==
    \/ \E id \in VideoIDs : GetVideoByID(id)
    \/ \E name \in Names : GetVideoByName(name)
    \/ GetLatestVideo
    \/ GetAllVideos

CallerWrites ==
    \E i \in 1..Len(CopyPtrs) :
        \/ \E x \in VideoIDs : MutateReturned(i, "ID", x)
        \/ \E x \in Names : MutateReturned(i, "Name", x)
        \/ MutateReturned(i, "CreatedAt", 0)

Next == Mutations

Spec == Init /\ [][Next]_vars

\* the store read by callers that write to the records they get; database.json
\* is not writable here
InitLookup ==
    /\ InitDB
    /\ dbWritable = FALSE
    /\ InitWH
    /\ InitHTTP
    /\ whWritable = TRUE

\* the creation time plays no part in a lookup: every record gets the same one
NextLookup ==
    \/ \E id \in VideoIDs, name \in Names : AddVideo(Video(id, name, 1))
    \/ \E id \in VideoIDs : DeleteVideo(id)
    \/ SaveToDisk
    \/ Lookups
    \/ CallerWrites

SpecLookup == InitLookup /\ [][NextLookup]_vars

\* the webhook registry and its snapshots
InitWebhooks ==
    /\ InitDB
    /\ dbWritable = TRUE
    /\ InitWH
    /\ InitHTTP
    /\ whWritable = TRUE

NextWebhooks ==
    \/ \E event \in Events, url \in URLs : AddWebhook(event, url)
    \/ \E event \in Events, url \in URLs : RemoveWebhook(event, url)
    \/ SaveWebhooksToDisk

SpecWebhooks == InitWebhooks /\ [][NextWebhooks]_vars

\* subscriptions to the uploaded event change while a notification of it goes
\* out; webhooks.json is not writable here
InitNotify ==
    /\ InitDB
    /\ dbWritable = TRUE
    /\ InitWH
    /\ InitHTTP
    /\ whWritable = FALSE

NextNotify ==
    \/ \E url \in URLs : AddWebhook(Uploaded, url)
    \/ \E url \in URLs : RemoveWebhook(Uploaded, url)
    \/ SaveWebhooksToDisk
    \/ UploadNotify
    \/ UploadRespond
    \/ NotifyRead(Uploaded)
    \/ NotifyDispatch
    \/ NotifyReturn
    \/ \E i \in 1..Cardinality(URLs), outcome \in Outcomes : SendWebhookNotification(i, outcome)

SpecNotify == InitNotify /\ [][NextNotify]_vars

\* the goroutines of the server are scheduled: the handler and NotifyWebhooks
\* take their next step.  Nothing makes a subscriber answer, and nothing makes
\* a client subscribe or unsubscribe
SpecNotifyFair ==
    /\ SpecNotify
    /\ WF_vars(UploadRespond)
    /\ WF_vars(NotifyRead(Uploaded))
    /\ WF_vars(NotifyDispatch)
    /\ WF_vars(NotifyReturn)

\* the Range headers parseRangeHeader is given.  The values "a-b", "a-" and
\* "-a" for the numbers up to one past the longest resource
RangeValues ==
    LET Nums == 0..(MaxTotal + 1)
    IN  {Itoa(a) \o <<"-">> \o Itoa(b) : a, b \in Nums}
            \cup {Itoa(a) \o <<"-">> : a \in Nums}
            \cup {<<"-">> \o Itoa(a) : a \in Nums}

\* every sequence of at most MaxBody of the characters
Bodies == UNION {[1..k -> BodyChars] : k \in 0..MaxBody}

\* what a header may start with in place of "bytes=": nothing, the unit
\* without "=", another case, another unit
OtherPrefixes ==
    {<< >>, <<"b", "y", "t", "e", "s">>, <<"B", "y", "t", "e", "s", "=">>,
     <<"i", "t", "e", "m", "s", "=">>}

Headers ==
    {<< >>}
        \cup {BytesPrefix \o v : v \in RangeValues \cup Bodies}
        \cup {p \o v : p \in OtherPrefixes, v \in RangeValues}

\* parseRangeHeader on its own: a header, a length, one call
InitRange ==
    /\ InitDB
    /\ dbWritable = TRUE
    /\ InitWH
    /\ whWritable = TRUE
    /\ upload = NoUpload
    /\ files = EmptyMap
    /\ rangeHeader \in Headers
    /\ fileSize \in Totals
    /\ parsed = NoParse
    /\ response = NoResponse
    /\ InitReqs
    /\ InitName
    /\ InitPage

NextRange == ParseRangeHeader

SpecRange == InitRange /\ [][NextRange]_vars

\* n times the character c
Repeat(c, n) == [i \in 1..n |-> c]

\* lengths at the two ends: next to nothing, next to the cap
Lengths == (0..MaxSlack) \cup ((NameCap - MaxSlack)..(NameCap + MaxSlack))

\* the names sanitizeFilename is given: every short sequence of a letter, a
\* dot and the two separators, and names made of a directory, a separator, a
\* base, a dot and an extension, each part of a length at one of the ends
ShortNames == UNION {[1..n -> {"a", ".", "/", "\\"}] : n \in 0..(MaxSlack + 1)}

LongNames ==
    {Repeat("d", i) \o sep \o Repeat("b", j) \o dot \o Repeat("e", k) :
        i \in Lengths, j \in Lengths, k \in Lengths,
        sep \in {<< >>, <<"/">>, <<"\\">>}, dot \in {<< >>, <<".">>}}

InitSanitize ==
    /\ InitDB
    /\ dbWritable = TRUE
    /\ InitWH
    /\ whWritable = TRUE
    /\ upload = NoUpload
    /\ files = EmptyMap
    /\ rangeHeader = << >>
    /\ fileSize = 0
    /\ parsed = NoParse
    /\ response = NoResponse
    /\ InitReqs
    /\ filename \in ShortNames \cup LongNames
    /\ sanitized = NoName
    /\ InitPage

NextSanitize == SanitizeFilename

SpecSanitize == InitSanitize /\ [][NextSanitize]_vars

\* what strconv.Atoi makes of the page parameter: an error or any int
Pages == {NotAnInt} \cup {Parsed(val) : val \in MinInt..MaxInt}

\* and of the limit parameter: an error, or an int at the edges of [1, 100],
\* at the default or at the ends of the range of int
Limits ==
    {NotAnInt} \cup {Parsed(val) : val \in {MinInt, 0 - 1, 0, 1, 2, 19, 20, 21, 99, 100, 101, MaxInt}}

InitPaginate ==
    /\ InitDB
    /\ dbWritable = TRUE
    /\ InitWH
    /\ whWritable = TRUE
    /\ upload = NoUpload
    /\ files = EmptyMap
    /\ rangeHeader = << >>
    /\ fileSize = 0
    /\ parsed = NoParse
    /\ response = NoResponse
    /\ InitReqs
    /\ InitName
    /\ query \in [page : Pages, limit : Limits, n : 0..Cardinality(VideoIDs)]
    /\ window = NoWindow

NextPaginate == GetAllVideosHandler

SpecPaginate == InitPaginate /\ [][NextPaginate]_vars

\* the Range headers of the downloads: none, the values "a-b", "a-" and "-a"
\* for the numbers up to one past the longest file, and values that are not
\* a range: no unit, no number, characters after the number, a comma after
\* the range, three parts
RequestHeaders ==
    LET Nums == 0..(MaxFile + 1)
    IN  {<< >>, <<"0", "-">>}
            \cup {BytesPrefix \o Itoa(a) \o <<"-">> \o Itoa(b) : a, b \in Nums}
            \cup {BytesPrefix \o Itoa(a) \o <<"-">> : a \in Nums}
            \cup {BytesPrefix \o <<"-">> \o Itoa(a) : a \in Nums}
            \cup {BytesPrefix \o v : v \in {<<"x">>, <<"0", "-", "1", "x">>,
                                            <<"0", "-", "1", ",">>,
                                            <<"0", "-", "1", "-", "1">>}}

\* the one identifier uploaded here, and one that never is
Stored1 == "id1"
Unknown == "id2"

\* files are uploaded and one is asked for, whole or by range; the model
\* follows one download.  database.json is not writable here
InitDownload ==
    /\ InitDB
    /\ dbWritable = FALSE
    /\ InitWH
    /\ whWritable = TRUE
    /\ InitHTTP

NextDownload ==
    \/ \E name \in Names, size \in 0..MaxFile : SaveUploadedFile(Stored1, name, size)
    \/ \E name \in Names : AddUploaded(Stored1, name)
    \/ SaveToDisk
    \/ \E videoID \in {Stored1, Unknown}, header \in RequestHeaders :
           \E opens \in (IF header = << >> THEN {TRUE} ELSE BOOLEAN),
              k \in 0..StoredLength(videoID) :
               Download(videoID, header, opens, k)

SpecDownload == InitDownload /\ [][NextDownload]_vars

\* the store and the snapshot writers it starts, each of them followed from
\* its RLock to its return; every record gets the same creation time
NextSnapshot ==
    \/ \E id \in VideoIDs, name \in Names : AddVideo(Video(id, name, 1))
    \/ \E id \in VideoIDs : DeleteVideo(id)
    \/ SaveBegin
    \/ \E i \in DOMAIN savers : SaveCopy(i)
    \/ \E i \in DOMAIN savers : SaveWrite(i)

SpecSnapshot == Init /\ [][NextSnapshot]_vars

\* the store with its mutations followed statement by statement, and its
\* readers; every record gets the same creation time
NextLocks ==
    \/ \E id \in VideoIDs, name \in Names : AddVideoLock(Video(id, name, 1))
    \/ AddVideoStore
    \/ AddVideoIndex
    \/ AddVideoUnlock
    \/ \E id \in VideoIDs : DeleteVideoLock(id)
    \/ DeleteVideoStore
    \/ DeleteVideoIndex
    \/ DeleteVideoUnlock
    \/ SaveToDisk
    \/ Lookups

SpecLocks == InitLookup /\ [][NextLocks]_vars

\* uploads and DELETE requests served at the same time; database.json is not
\* writable here, and the clock stands still
NextRequests ==
    \/ \E r \in Requests, form \in {"invalid", "empty"} : UploadCheck(r, form, "", 0)
    \/ \E r \in Requests, name \in Names, size \in {MaxFile, MaxFile + 1} :
           UploadCheck(r, "file", name, size)
    \/ \E r \in Requests, ok \in BOOLEAN : UploadSave(r, ok)
    \/ \E r \in Requests, ok \in BOOLEAN : UploadStat(r, ok, 1)
    \/ \E r \in Requests : UploadInsert(r)
    \/ \E r \in Requests : UploadGo(r)
    \/ \E r \in Requests, id \in VideoIDs : DeleteLookup(r, id)
    \/ \E r \in Requests : DeleteCall(r)
    \/ \E r \in Requests, ok \in BOOLEAN : DeleteRemove(r, ok)
    \/ SaveToDisk

SpecRequests == InitLookup /\ [][NextRequests]_vars

\* the store and a storage directory read by callers of FindVideoByFilePrefix
\* that write to the name of the record they get; files are saved under
\* identifiers the store does not hold yet, and every record gets the same
\* creation time
NextFind ==
    \/ \E id \in Range(IDOrder), name \in Names : SaveUploadedFile(id, name, MaxFile)
    \/ \E id \in Range(IDOrder), name \in Names : AddVideo(Video(id, name, 1))
    \/ \E id \in Range(IDOrder) : DeleteVideo(id)
    \/ SaveToDisk
    \/ \E filePrefix \in VideoIDs, readable \in BOOLEAN :
           FindVideoByFilePrefix(filePrefix, readable)
    \/ \E x \in Names : MutateReturned(1, "Name", x)

SpecFind == InitLookup /\ [][NextFind]_vars

\* uploads that take their creation time from a running clock, and DELETE
\* requests, served at the same time; no call to the file system fails
NextStamps ==
    \/ \E r \in Requests, name \in Names : UploadCheck(r, "file", name, MaxFile)
    \/ \E r \in Requests : UploadSave(r, TRUE)
    \/ \E r \in Requests, t \in Times : UploadStat(r, TRUE, t)
    \/ \E r \in Requests : UploadInsert(r)
    \/ \E r \in Requests : UploadGo(r)
    \/ \E r \in Requests, id \in Range(IDOrder) : DeleteLookup(r, id)
    \/ \E r \in Requests : DeleteCall(r)
    \/ \E r \in Requests : DeleteRemove(r, TRUE)
    \/ SaveToDisk

SpecStamps == InitLookup /\ [][NextStamps]_vars

\* the store, its snapshots, and restarts of the server; every record gets
\* the same creation time
NextRestart ==
    \/ \E id \in VideoIDs, name \in Names : AddVideo(Video(id, name, 1))
    \/ \E id \in VideoIDs : DeleteVideo(id)
    \/ SaveToDisk
    \/ LoadFromDisk

SpecRestart == Init /\ [][NextRestart]_vars

----------------------------------------------------------------------------
(* Properties of the metadata store *)

Present == DOMAIN videos

Stored(id) == heap[videos[id]]

Found(v) == [ok |-> TRUE, v |-> v]

\* C1: every identifier the name index holds, and the latest pointer unless it
\* is empty, is a key of the primary map
IndexWithinPrimary ==
    /\ \A name \in DOMAIN nameIndex : nameIndex[name] \in Present
    /\ latestID # "" => latestID \in Present

\* a record was deleted while others, indexed by name, remain
IndexWithinPrimaryWitness ==
    /\ last.op = "DeleteVideo" /\ last.ok
    /\ DOMAIN nameIndex # {}
    /\ latestID # ""

\* C2: right after insert(r), getByID(r.id), getByName(r.name) and getLatest()
\* all find a record equal to r
InsertThenGet ==
    last.op = "AddVideo" =>
        /\ LookupByID(last.v.ID) = Found(last.v)
        /\ LookupByName(last.v.Name) = Found(last.v)
        /\ LookupLatest = Found(last.v)

\* a record was inserted into a store that already held two
InsertThenGetWitness ==
    /\ last.op = "AddVideo"
    /\ Cardinality(Present) = 3

\* C3: after delete(id) returned true, getByID(id) and getByName(name) report
\* not-found, name being the display name of the deleted record
DeleteRemovesBoth ==
    (last.op = "DeleteVideo" /\ last.ok) =>
        /\ ~LookupByID(last.v.ID).ok
        /\ ~LookupByName(last.v.Name).ok

\* a record was deleted while another record of the same name is present
DeleteRemovesBothWitness ==
    /\ last.op = "DeleteVideo" /\ last.ok
    /\ \E id \in Present : Stored(id).Name = last.v.Name

\* C4: getLatest() reports not-found exactly when the primary map is empty, and
\* what it returns otherwise is a record of the store
LatestIffNonEmpty ==
    /\ ~LookupLatest.ok <=> Present = {}
    /\ LookupLatest.ok => \E id \in Present : Stored(id) = LookupLatest.v

\* the latest record was deleted and others remain
LatestIffNonEmptyWitness ==
    /\ last.op = "DeleteVideo" /\ last.ok /\ last.wasLatest
    /\ Cardinality(Present) = 2

\* C5: after the delete of the record the latest pointer referred to, the
\* pointer is empty if no record remains, and otherwise refers to a remaining
\* record of maximal creation time
LatestRederived ==
    (last.op = "DeleteVideo" /\ last.ok /\ last.wasLatest) =>
        IF Present = {}
        THEN latestID = ""
        ELSE /\ latestID \in Present
             /\ \A id \in Present : Stored(latestID).CreatedAt >= Stored(id).CreatedAt

\* the newest of three records with increasing creation times was deleted
LatestRederivedWitness ==
    /\ last.op = "DeleteVideo" /\ last.ok /\ last.wasLatest
    /\ \E a, b \in Present :
           /\ Stored(a).CreatedAt < Stored(b).CreatedAt
           /\ Stored(b).CreatedAt < last.v.CreatedAt
           /\ latestID = b

\* C6: after the insert of a record whose display name another present record
\* bears, getByName of that name returns the record inserted last
LastWriterWins ==
    (/\ last.op = "AddVideo"
     /\ \E id \in Present : id # last.v.ID /\ Stored(id).Name = last.v.Name) =>
        LookupByName(last.v.Name) = Found(last.v)

\* a record was inserted whose name two older records bear
LastWriterWinsWitness ==
    /\ last.op = "AddVideo"
    /\ Cardinality({id \in Present : id # last.v.ID /\ Stored(id).Name = last.v.Name}) = 2

\* what getByID, getByName, getLatest and listAll return, for every argument
Observed ==
    [byID |-> [id \in VideoIDs |-> LookupByID(id)],
     byName |-> [name \in Names |-> LookupByName(name)],
     latest |-> LookupLatest,
     all |-> [id \in Present |-> Stored(id)]]

\* C7: a caller's write to a field of a record that a lookup returned changes
\* nothing of what the lookups return afterwards
DefensiveCopies ==
    [][(~ret.written /\ ret'.written) => Observed' = Observed]_vars

\* a caller has written to a record that listAll returned while it is stored
DefensiveCopiesWitness ==
    /\ ret.written
    /\ ret.op = "GetAllVideos"
    /\ Len(ret.ptrs) = Cardinality(Present)
    /\ Len(ret.ptrs) >= 2

\* C27: DeleteVideo(id) for an identifier that is not a key of the primary
\* map returns false and leaves the primary map, the name index, the latest
\* pointer and the number of snapshot writers as they are
DeleteAbsent ==
    [][\A id \in VideoIDs :
           (id \notin Present /\ DeleteVideo(id))
           => /\ last'.op = "DeleteVideo" /\ ~last'.ok
              /\ UNCHANGED <<heap, videos, nameIndex, latestID, dbSaves, dbDisk>>]_vars

\* a delete of an absent identifier returned while records are stored
DeleteAbsentWitness ==
    /\ last.op = "DeleteVideo" /\ ~last.ok
    /\ Cardinality(Present) = 2
    /\ dbSaves = 0

\* C28: DeleteVideo(id) leaves every other record that is present before and
\* after it as it was for GetVideoByID, and GetVideoByName of its name still
\* finds a record of that name
DeleteOnlyOne ==
    [][\A id \in VideoIDs :
           DeleteVideo(id)
           => \A other \in (Present \cap Present') \ {id} :
                  /\ LookupByID(other)' = LookupByID(other)
                  /\ LookupByName(Stored(other).Name)'.ok
                  /\ LookupByName(Stored(other).Name)'.v.Name = Stored(other).Name]_vars

\* the content of database.json as the three structures it records
DiskState ==
    [Videos |-> Range(dbDisk.Videos),
     NameIndex |-> dbDisk.NameIndex,
     LatestID |-> dbDisk.LatestID]

\* no saveToDisk is spawned or running, and no mutation holds the lock
Quiescent == dbSaves = 0 /\ savers = << >> /\ mutation.pc = "idle"

\* C23: a saveToDisk that is writing database.json holds no lock, and an
\* insert or a delete can take db.mutex while it writes
WriteHoldsNoLock ==
    /\ \A i \in DOMAIN savers : savers[i].pc = "write" => ~savers[i].locked
    /\ (\E i \in DOMAIN savers : savers[i].pc = "write") /\ mutation.pc = "idle" => Lock

\* C29: once no mutation is under way and every saveToDisk that was spawned
\* has returned, none of them with a write error, database.json holds the
\* records, the name index and the latest pointer of the store
SnapshotConverges ==
    Quiescent /\ dbWritable
    => /\ DiskState = Current
       /\ Len(dbDisk.Videos) = Cardinality(DOMAIN videos)

SnapshotConvergesWitness ==
    /\ Quiescent /\ dbWritable
    /\ last.op = "DeleteVideo" /\ last.ok
    /\ Cardinality(DOMAIN videos) = 1
    /\ DiskState = Current

\* C24: a lookup runs only while no mutation holds db.mutex, so the primary
\* map, the name index and the latest pointer it reads are those a finished
\* mutation left, never those of a mutation that is half done
ReadsSeeWhole ==
    [][Lookups => /\ mutation.pc = "idle"
                  /\ Current = mutation.committed]_vars

ReadsSeeWholeWitness ==
    /\ ret.op = "GetLatestVideo" /\ ret.ok
    /\ mutation.op = "DeleteVideo" /\ mutation.pc = "latestID"
    /\ latestID = mutation.v.ID
    /\ Current # mutation.committed

\* C21: a DELETE request is answered 404 or 200 and nothing else
DeleteAnswers ==
    \A r \in Requests :
        reqs[r].kind = "delete" /\ reqs[r].pc = "done" => reqs[r].status \in {200, 404}

\* C22: a record was inserted only for an identifier whose file had been
\* saved, the uploaded event was handed over only for an identifier whose
\* record had been inserted, and an upload that was answered with an error
\* inserted no record and handed over no event
UploadOrder ==
    /\ usedIDs \subseteq flow.persisted
    /\ flow.dispatched \subseteq usedIDs
    /\ \A id \in DOMAIN videos : id \in usedIDs /\ LookupByID(id).ok
    /\ \A r \in Requests :
           reqs[r].kind = "upload" /\ reqs[r].pc = "done" /\ reqs[r].status # 201
           => /\ reqs[r].status \in {400, 500}
              /\ reqs[r].id \notin usedIDs
              /\ reqs[r].id \notin flow.dispatched

UploadOrderWitness ==
    \E r, q \in Requests :
        /\ reqs[r].kind = "upload" /\ reqs[r].status = 201
        /\ reqs[r].id \in flow.dispatched
        /\ reqs[q].kind = "upload" /\ reqs[q].status = 500
        /\ reqs[q].id \in flow.persisted

\* C30: every record of the store has its file in the storage directory
RecordsHaveFiles ==
    \A id \in DOMAIN videos : FilePath(id, heap[videos[id]].Name) \in DOMAIN files

RecordsHaveFilesWitness ==
    \E r \in Requests :
        /\ reqs[r].kind = "delete" /\ reqs[r].pc = "remove"
        /\ FilePath(reqs[r].id, reqs[r].name) \in DOMAIN files
        /\ Cardinality(DOMAIN videos) = 1

----------------------------------------------------------------------------
(* Properties of the webhook registry *)

NoDuplicates(list) == \A i, j \in 1..Len(list) : list[i] = list[j] => i = j

Registered(event, url) == \E i \in 1..Len(GetWebhooks(event)) : GetWebhooks(event)[i] = url

\* C8: no event maps to a list that holds a URL twice, and subscribe(e, u) for
\* a pair that is registered leaves the registry as it is
SubscribeOnce ==
    /\ [](\A event \in DOMAIN webhooks : NoDuplicates(GetWebhooks(event)))
    /\ [][\A event \in Events, url \in URLs :
            (Registered(event, url) /\ AddWebhook(event, url)) =>
                UNCHANGED <<webhooks, arrays, whSaves, whDisk>>]_vars

\* subscribe was called for a pair that was registered, in a list of two
SubscribeOnceWitness ==
    /\ wlast.op = "AddWebhook" /\ wlast.present
    /\ \E event \in DOMAIN webhooks : Len(GetWebhooks(event)) = 2

\* C9: unsubscribe(event, url) for a pair that is not registered leaves what
\* list(event) and listAll() return as it is
UnsubscribeAbsentNoOp ==
    [][\A event \in Events, url \in URLs :
          (~Registered(event, url) /\ RemoveWebhook(event, url)) =>
              /\ GetWebhooks(event)' = GetWebhooks(event)
              /\ GetAllWebhooks' = GetAllWebhooks]_vars

\* C10: every delivery a notify call starts goes to a URL that was registered
\* for the event at the moment the call read the list
NotifySnapshot ==
    \A i \in 1..Len(notify.sent) :
        \E j \in 1..Len(notify.registered) : notify.sent[i] = notify.registered[j]

\* the call has dispatched to all it read, while a URL subscribed since then
\* sits in the backing array the call ranges over
NotifySnapshotWitness ==
    /\ notify.pc = "range"
    /\ notify.next > notify.urls.len
    /\ notify.sent # << >>
    /\ Uploaded \in DOMAIN webhooks
    /\ webhooks[Uploaded].arr = notify.urls.arr
    /\ \E url \in URLs :
           /\ Registered(Uploaded, url)
           /\ \A j \in 1..Len(notify.registered) : notify.registered[j] # url

\* C11: a call of NotifyWebhooks starts one delivery for each URL of the list
\* it read, in order, and a delivery makes one POST whatever it comes to: none
\* before it ends, one after, never a second one
AtMostOneAttempt ==
    /\ \A i \in 1..Len(notify.posts) :
           notify.attempts[i] = IF notify.posts[i] = "posted" THEN 1 ELSE 0
    /\ Len(notify.posts) = Len(notify.sent)
    /\ Len(notify.attempts) = Len(notify.sent)
    /\ notify.pc = "range" => notify.sent = SubSeq(notify.registered, 1, notify.next - 1)
    /\ notify.pc = "returned" => notify.sent = notify.registered

AtMostOneAttemptWitness ==
    /\ notify.pc = "returned"
    /\ Len(notify.sent) = 2
    /\ \A i \in 1..2 : notify.posts[i] = "posted" /\ notify.attempts[i] = 1

\* C12: NotifyWebhooks, once started, returns, and the upload handler that
\* started it answers 201, whether or not any delivery ever ends; no delivery
\* touches the answer, whatever it comes to
NotifyDoesNotWait ==
    /\ (notify.pc = "spawned") ~> (notify.pc = "returned")
    /\ (upload.pc = "go") ~> (upload.pc = "done" /\ upload.status = 201)
    /\ [][\A i \in 1..Cardinality(URLs), outcome \in Outcomes :
              SendWebhookNotification(i, outcome) => upload' = upload]_vars
    /\ [](upload.pc = "done" => upload.status = 201)

NotifyDoesNotWaitWitness ==
    /\ notify.pc = "returned"
    /\ upload.pc = "done"
    /\ upload.status = 201
    /\ Len(notify.posts) = 2
    /\ \A i \in 1..2 : notify.posts[i] = "started"

----------------------------------------------------------------------------
(* Properties of the byte-range parser *)

\* the header "bytes=" followed by v
Bytes(v) == BytesPrefix \o v

Dash == <<"-">>

\* C13: "bytes=start-end" with 0 <= start <= end < fileSize is accepted and
\* gives start and end themselves
ExplicitRange ==
    \A start, end \in Totals :
        (parsed.done /\ start <= end /\ end < fileSize
            /\ rangeHeader = Bytes(Itoa(start) \o Dash \o Itoa(end)))
        => (parsed.ok /\ parsed.start = start /\ parsed.end = end)

ExplicitRangeWitness ==
    /\ parsed.done
    /\ parsed.ok
    /\ fileSize = MaxTotal
    /\ rangeHeader = Bytes(Itoa(2) \o Dash \o Itoa(MaxTotal - 1))
    /\ parsed.start = 2
    /\ parsed.end = MaxTotal - 1

\* C14: "bytes=-N" gives the last N bytes when 0 < N <= fileSize and is
\* rejected when N > fileSize
SuffixRange ==
    \A n \in 1..(MaxTotal + 1) :
        (parsed.done /\ rangeHeader = Bytes(Dash \o Itoa(n)))
        => IF n <= fileSize
           THEN parsed.ok /\ parsed.start = fileSize - n /\ parsed.end = fileSize - 1
           ELSE ~parsed.ok

SuffixRangeWitness ==
    /\ parsed.done
    /\ parsed.ok
    /\ fileSize = MaxTotal
    /\ rangeHeader = Bytes(Dash \o Itoa(MaxTotal - 1))
    /\ parsed.start = 1
    /\ parsed.end = MaxTotal - 1

\* C15: "bytes=N-" gives N to the last byte when 0 <= N < fileSize and is
\* rejected when N >= fileSize
OpenRange ==
    \A n \in 0..(MaxTotal + 1) :
        (parsed.done /\ rangeHeader = Bytes(Itoa(n) \o Dash))
        => IF n < fileSize
           THEN parsed.ok /\ parsed.start = n /\ parsed.end = fileSize - 1
           ELSE ~parsed.ok

OpenRangeWitness ==
    /\ parsed.done
    /\ parsed.ok
    /\ fileSize = MaxTotal
    /\ rangeHeader = Bytes(Itoa(MaxTotal - 1) \o Dash)
    /\ parsed.start = MaxTotal - 1
    /\ parsed.end = MaxTotal - 1

\* a part of a range that is a decimal number and nothing else
IsDecimal(part) == part # << >> /\ \A i \in 1..Len(part) : IsDigit(part[i])

\* the header is "bytes=<a>-<b>" and a part that is not empty is not a number
HasBadPart(header) ==
    /\ HasPrefix(header, BytesPrefix)
    /\ LET parts == Split(TrimPrefix(header, BytesPrefix), "-")
       IN  /\ Len(parts) = 2
           /\ \E i \in 1..2 : parts[i] # << >> /\ ~IsDecimal(parts[i])

\* C16: a header that is not empty and lacks the "bytes=" prefix, or that is
\* "bytes=<a>-<b>" with a part that is not empty and not entirely a decimal
\* number, is rejected whatever the length
MalformedRejected ==
    (parsed.done /\ rangeHeader # << >>
        /\ (~HasPrefix(rangeHeader, BytesPrefix) \/ HasBadPart(rangeHeader)))
    => ~parsed.ok

\* the value after "bytes=" contains a comma
HasComma(header) ==
    /\ HasPrefix(header, BytesPrefix)
    /\ \E i \in (Len(BytesPrefix) + 1)..Len(header) : header[i] = ","

\* C17: a header whose value after "bytes=" contains a comma is rejected
\* whatever the length
MultiRangeRejected == (parsed.done /\ HasComma(rangeHeader)) => ~parsed.ok

----------------------------------------------------------------------------
(* Properties of the download handler *)

\* the file of the record the last request named
Resource == files[FilePath(response.id, Stored(response.id).Name)]

\* the interval is the whole of a resource of the given length
IsWhole(r, total) == r.ok /\ r.start = 0 /\ r.end = total - 1

\* C18: a request whose interval is the whole resource, with no Range header
\* or with one that resolves to (0, total-1), is answered 200 with
\* Accept-Ranges; 206 is the answer only to a proper sub-range
WholeIsOK ==
    response.status \in {200, 206}
    => LET r == parseRangeHeader(response.header, Len(Resource))
       IN  /\ IsWhole(r, Len(Resource)) => (response.status = 200 /\ response.acceptRanges)
           /\ response.status = 206 => ~IsWhole(r, Len(Resource))

\* C19: when the Range header of a request resolves to (start, end), the
\* answer is 206 with "Content-Range: bytes start-end/total", total the length
\* of the file, a Content-Length of end-start+1, and as body the bytes of the
\* file from offset start on, up to offset end unless the copy fails
PartialContent ==
    (response.parsed.done /\ response.parsed.ok)
    => LET start == response.parsed.start
           end == response.parsed.end
       IN  /\ response.status = 206
           /\ response.contentRange =
                  <<"b", "y", "t", "e", "s", " ">> \o Itoa(start) \o Dash \o Itoa(end)
                      \o <<"/">> \o Itoa(Len(Resource))
           /\ response.contentLength = end - start + 1
           /\ Len(response.body) <= end - start + 1
           /\ \A i \in 1..Len(response.body) : response.body[i] = Resource[start + i]
           /\ ~response.copyErr => Len(response.body) = end - start + 1

PartialContentWitness ==
    /\ response.parsed.done
    /\ response.parsed.ok
    /\ response.status = 206
    /\ Len(Resource) = MaxFile
    /\ response.parsed.start = 1
    /\ response.parsed.end = MaxFile - 1
    /\ Len(response.body) = MaxFile - 1
    /\ ~response.copyErr

\* C20: when the Range header of a request for a stored record is rejected,
\* the answer is 416 with "Content-Range: bytes */total", total the length of
\* the file, and none of the file is written
RangeNotSatisfiable ==
    (response.parsed.done /\ ~response.parsed.ok)
    => /\ response.status = 416
       /\ response.contentRange = <<"b", "y", "t", "e", "s", " ", "*", "/">> \o Itoa(Len(Resource))
       /\ response.body = << >>

RangeNotSatisfiableWitness ==
    /\ response.parsed.done
    /\ ~response.parsed.ok
    /\ response.status = 416
    /\ Len(Resource) = MaxFile
    /\ response.header = Bytes(Itoa(MaxFile) \o Dash)

----------------------------------------------------------------------------
(* Properties of sanitizeFilename and of the listing *)

HasSeparator(name) == \E i \in 1..Len(name) : name[i] \in {"/", "\\"}

\* the text of a name from its last dot on, empty if it has no dot
FromLastDot(name) ==
    IF \E i \in 1..Len(name) : name[i] = "."
    THEN LET d == CHOOSE i \in 1..Len(name) :
                      name[i] = "." /\ \A j \in (i + 1)..Len(name) : name[j] # "."
         IN  SubSeq(name, d, Len(name))
    ELSE << >>

EndsWith(name, suffix) ==
    /\ Len(suffix) <= Len(name)
    /\ SubSeq(name, Len(name) - Len(suffix) + 1, Len(name)) = suffix

\* C25: sanitizeFilename returns for every name, without a panic, a name
\* with no separator and of at most 255 bytes; a name of at most 255 bytes
\* without separators comes back as it is, and a longer one comes back with
\* exactly 255 bytes that end with what follows its last dot
SanitizeTotal ==
    sanitized.done
    => /\ ~sanitized.panic
       /\ ~HasSeparator(sanitized.name)
       /\ Len(sanitized.name) <= NameCap
       /\ (Len(filename) <= NameCap /\ ~HasSeparator(filename)) => sanitized.name = filename
       /\ Len(filename) > NameCap
              => /\ Len(sanitized.name) = NameCap
                 /\ EndsWith(sanitized.name, FromLastDot(ReplaceAll(ReplaceAll(filename, "/", "_"), "\\", "_")))

\* C26: for every page, limit and number n of records the listing comes to a
\* window with 0 <= start <= end <= n, start = min((page-1)*limit, n) and
\* end = min(start+limit, n), and the slice expression does not panic
WindowInBounds ==
    window.done
    => /\ ~window.panic
       /\ 0 <= window.start /\ window.start <= window.end /\ window.end <= query.n
       /\ window.start = Min((window.page - 1) * window.limit, query.n)
       /\ window.end = Min(window.start + window.limit, query.n)

\* C34: an accepted range lies within the resource, 0 <= start <= end < fileSize,
\* so that end - start + 1 is at least 1 and at most fileSize
AcceptedWithin ==
    parsed.done /\ parsed.ok
    => /\ 0 <= parsed.start
       /\ parsed.start <= parsed.end
       /\ parsed.end < fileSize
       /\ parsed.end - parsed.start + 1 \in 1..fileSize

\* C33: a caller's write to the record FindVideoByFilePrefix returned changes
\* nothing of what GetVideoByID returns afterwards
FindHandsOutCopy ==
    [][(ret.op = "FindVideoByFilePrefix" /\ ~ret.written /\ ret'.written)
       => \A id \in VideoIDs : LookupByID(id)' = LookupByID(id)]_vars

\* C31: when no request is in progress, GetLatestVideo finds a record exactly
\* when the store holds one, and the record it returns has the greatest
\* creation time of the records the store holds
LatestIsNewest ==
    (\A r \in Requests : reqs[r].pc \in {"idle", "done"})
    => /\ LookupLatest.ok <=> DOMAIN videos # {}
       /\ LookupLatest.ok
          => \A id \in DOMAIN videos :
                 LookupLatest.v.CreatedAt >= heap[videos[id]].CreatedAt

\* C32: a store loaded from the snapshot that was written of the state the
\* store is in answers GetVideoByID, GetVideoByName and GetLatestVideo as the
\* store did, for every identifier and every name
SnapshotRoundTrip ==
    [][(LoadFromDisk /\ DiskState = Current /\ Len(dbDisk.Videos) = Cardinality(DOMAIN videos))
       => /\ \A id \in VideoIDs : LookupByID(id)' = LookupByID(id)
          /\ \A name \in Names : LookupByName(name)' = LookupByName(name)
          /\ LookupLatest' = LookupLatest]_vars

====
